---- MODULE Spec2Model ----
(***************************************************************************)
(* fatmod: a user-space editor of a FAT32 volume kept in an ordinary file. *)
(* One invocation performs one command (list, create, write, read, delete) *)
(* on the image and exits; the model's state is the image, together with   *)
(* the argument vector and the outcome of the command that ran last.       *)
(*                                                                         *)
(* The image is modelled region by region:                                 *)
(*   fat   the File Allocation Table, one 32-bit value per cluster number  *)
(*   dir   the root directory cluster, one record per 32-byte slot         *)
(*   data  the data clusters that follow the root directory                *)
(*   damaged  set when a cluster-sized buffer with changed content is      *)
(*         written at an address outside the data clusters                 *)
(* The geometry is scaled down: a cluster holds ClusterBytes bytes, the    *)
(* directory has DirSlots slots and the volume UsableClusters clusters.    *)
(***************************************************************************)
EXTENDS Integers, Sequences, FiniteSets, TLC

\* ---- program constants ----
FAILURE == 0 - 1
FAT_TABLE_END_OF_FILE_VALUE == 268435448
FAT_TABLE_BAD_CLUSTER_VALUE == 268435447
FAT_TABLE_FREE_CLUSTER_VALUE == 0
FAT_TABLE_RESERVED_CLUSTER_VALUE == 268435440
FAT_TABLE_LAST_CLUSTER_VALUE == 268435455
FILENAME_SIZE == 8
FILE_EXTENSION_SIZE == 3
DOT_SIZE == 1
TOTAL_FILENAME_SIZE == FILE_EXTENSION_SIZE + FILENAME_SIZE
N_ROOT_DIRECTORY_CLUSTERS == 1
ATTR_VOLUME == 8
ATTR_DIR == 16
ATTR_LFN == 15
ATTR_FILE == 32

\* ---- bounds of the model ----
\* bytes in a cluster (CLUSTERSIZE, 1024 in the program)
ClusterBytes == 2
\* usable_clusters_size of the volume (derived from the boot sector in main)
UsableClusters == 6
\* root_directory_max_content_size (CLUSTERSIZE / 32 in the program)
DirSlots == 2
\* largest LENGTH argument of a write command
MaxLen == 4
\* largest OFFSET argument of a write command
MaxOff == 5
\* number of commands run on the image, one after the other
MaxCmds == 4

CLUSTERSIZE == ClusterBytes
usable_clusters_size == UsableClusters
root_directory_max_content_size == DirSlots
root_directory_cluster_number == 2

\* ---- characters ----
\* A byte of a name is a one-character string; the two bytes that are not
\* printable are named.
NUL == "NUL"
DELETED == "E5"
SPACE == " "
DOT == "."
UpperChars == {"A", "B", "C", "D", "E", "F", "G", "H", "T", "X"}
LowerChars == {"a", "b", "t", "x"}
DigitChars == {"0", "1"}

\* toupper() of <ctype.h>
toupper(c) ==
  CASE c = "a" -> "A"
    [] c = "b" -> "B"
    [] c = "t" -> "T"
    [] c = "x" -> "X"
    [] OTHER -> c

\* isalnum() of <ctype.h>
isalnum(c) == c \in UpperChars \cup LowerChars \cup DigitChars

\* the test both name loops of read_root_directory and check_set_file_name use
IsNameChar(c) == isalnum(c) \/ c = "-" \/ c = "_"

\* strlen-terminated C string held in input_file_name: the byte at index k
\* (0-based); the bytes behind the terminator are the zeros of the static buffer
CharAt(s, k) == IF k < Len(s) THEN s[k + 1] ELSE NUL

\* ---- directory entries (struct msdos_dir_entry, 32 bytes) ----
\* name: the 11 short-name bytes; attr; starthi/start: the two halves of the
\* first cluster; size. The time and date fields are not modelled.
NulName == [i \in 1..TOTAL_FILENAME_SIZE |-> NUL]
ZeroEntry == [name |-> NulName, attr |-> 0, starthi |-> 0, start |-> 0, size |-> 0]

\* file_directory_entry->starthi << 16 | file_directory_entry->start
FirstCluster(e) == e.starthi * 65536 + e.start

\* name[0] == 0x00 || name[0] == 0xE5
IsUnusedSlot(e) == e.name[1] = NUL \/ e.name[1] = DELETED

\* the longest prefix of name[from..to] made of letters, digits, '-' and '_'
RECURSIVE TakeNameChars(_, _, _)
TakeNameChars(name, from, to) ==
  IF from > to \/ ~IsNameChar(name[from]) THEN <<>>
  ELSE <<name[from]>> \o TakeNameChars(name, from + 1, to)

\* total_file_name as read_root_directory builds it from the 11 name bytes
DecodeName(name) ==
  LET base == TakeNameChars(name, 1, FILENAME_SIZE)
      ext == TakeNameChars(name, FILENAME_SIZE + 1, TOTAL_FILENAME_SIZE)
  IN IF ext = <<>> THEN base ELSE base \o <<DOT>> \o ext

\* total_file_name has TOTAL_FILENAME_SIZE + DOT_SIZE bytes: a decoded name
\* of that length leaves no terminating zero in the buffer
Unterminated(name) == Len(DecodeName(name)) >= TOTAL_FILENAME_SIZE + DOT_SIZE

\* the slot is a regular file that the FIND_GIVEN_ENTRY pass compares
IsLiveFile(e) == ~IsUnusedSlot(e) /\ e.attr = ATTR_FILE

\* a search that compares a tombstoned slot by its remaining name bytes
RECURSIVE FindGivenFromTombstones(_, _, _)
FindGivenFromTombstones(d, input, i) ==
  IF i >= root_directory_max_content_size THEN FAILURE
  ELSE IF /\ d[i].attr = ATTR_FILE
          /\ DecodeName([d[i].name EXCEPT ![1] = CharAt(input, 0)]) = input
       THEN i
  ELSE FindGivenFromTombstones(d, input, i + 1)

\* the slots read_root_directory passes before slot i
RECURSIVE FindGivenFrom(_, _, _)
FindGivenFrom(d, input, i) ==
  IF i >= root_directory_max_content_size THEN FAILURE
  ELSE IF IsLiveFile(d[i]) /\ DecodeName(d[i].name) = input THEN i
  ELSE FindGivenFrom(d, input, i + 1)

\* a search that passes over tombstoned slots and takes a never-used one
RECURSIVE FindNeverUsedFrom(_, _)
FindNeverUsedFrom(d, i) ==
  IF i >= root_directory_max_content_size THEN FAILURE
  ELSE IF d[i].name[1] = NUL THEN i
  ELSE FindNeverUsedFrom(d, i + 1)

RECURSIVE FindFreeFrom(_, _)
FindFreeFrom(d, i) ==
  IF i >= root_directory_max_content_size THEN FAILURE
  ELSE IF IsUnusedSlot(d[i]) THEN i
  ELSE FindFreeFrom(d, i + 1)

\* read_root_directory(fd, FIND_GIVEN_ENTRY) and (fd, FIND_FREE_ENTRY)
FindGivenEntry(d, input) == FindGivenFrom(d, input, 0)
FindFreeEntry(d) == FindFreeFrom(d, 0)

\* read_root_directory(fd, LIST_DIRECTORIES): the lines printed, in slot order
RECURSIVE ListFrom(_, _)
ListFrom(d, i) ==
  IF i >= root_directory_max_content_size THEN <<>>
  ELSE LET e == d[i]
           line == IF IsUnusedSlot(e) THEN <<>>
                   ELSE IF e.attr = ATTR_VOLUME THEN << <<"Volume label:", e.name>> >>
                   ELSE IF e.attr = ATTR_DIR \/ e.attr = ATTR_LFN THEN << <<"WARNING">> >>
                   ELSE IF e.attr = ATTR_FILE THEN << <<DecodeName(e.name), e.size>> >>
                   ELSE << <<"WARNING">> >>
       IN line \o ListFrom(d, i + 1)

ListDirectories(d) == ListFrom(d, 0)

\* ---- the name argument ----
\* check_set_file_name: the tests it makes, in order
CheckFileName(str) ==
  /\ Len(str) <= TOTAL_FILENAME_SIZE
  /\ str[1] # DOT /\ str[Len(str)] # DOT
  /\ str[1] # SPACE /\ str[Len(str)] # SPACE
  /\ \A i \in 1..Len(str) : IsNameChar(toupper(str[i])) \/ toupper(str[i]) = DOT

\* check_set_file_name: what it leaves in input_file_name on success
SetFileName(str) == [i \in 1..Len(str) |-> toupper(str[i])]

\* create_file_entry: the first loop, over name[0..7]
RECURSIVE NameLoop(_, _, _, _, _)
NameLoop(input, i, idx, dotFound, acc) ==
  IF i >= FILENAME_SIZE THEN [name |-> acc, idx |-> idx]
  ELSE LET hit == CharAt(input, idx) = DOT
           dot2 == dotFound \/ hit
           idx2 == IF hit THEN idx + 1 ELSE idx
       IN IF dot2 THEN NameLoop(input, i + 1, idx2, dot2, Append(acc, SPACE))
          ELSE NameLoop(input, i + 1, idx2 + 1, dot2, Append(acc, CharAt(input, idx2)))

\* create_file_entry: the second loop, over name[8..10]; the bytes it does
\* not reach keep the zero of the memset
RECURSIVE ExtLoop(_, _, _, _)
ExtLoop(input, i, idx, acc) ==
  IF i >= TOTAL_FILENAME_SIZE THEN acc
  ELSE IF CharAt(input, idx) = NUL
       THEN acc \o [k \in 1..(TOTAL_FILENAME_SIZE - i) |-> NUL]
       ELSE ExtLoop(input, i + 1, idx + 1, Append(acc, CharAt(input, idx)))

\* the 11 name bytes create_file_entry stores for input_file_name
EncodeName(input) ==
  LET first == NameLoop(input, 0, 0, FALSE, <<>>)
  IN ExtLoop(input, FILENAME_SIZE, first.idx, first.name)

\* the entry create_file_entry builds
NewFileEntry(input) ==
  [name |-> EncodeName(input), attr |-> ATTR_FILE, starthi |-> 0, start |-> 0, size |-> 0]

\* ---- the File Allocation Table ----
\* The table is held with the program's 4-byte transfer buffer
\* fat_table_entry: [fat, buf, stray, io]. An entry outside the table lies
\* behind the end of the image (an image below 1 GiB): a read there transfers
\* nothing and leaves the buffer as it was, a write there lands outside the
\* table. io is the sequence of calls the command has made on the descriptor
\* of the image: read and write with the region and the index they address
\* (FAT entry, directory slot or cluster, data cluster), and fsync.
FatLast == usable_clusters_size + 1
Ev(op, region, at, value) == [op |-> op, region |-> region, at |-> at, value |-> value]
FsyncEv == Ev("fsync", "", 0, 0)
FatDev(f) == [fat |-> f, buf |-> 0, stray |-> FALSE, io |-> <<>>]

\* read_cluster and write_cluster of a data cluster, as calls on the descriptor
LogRead(fs, region, at) == [fs EXCEPT !.io = Append(@, Ev("read", region, at, 0))]
LogWrite(fs, region, at) ==
  [fs EXCEPT !.io = @ \o <<Ev("write", region, at, 0), FsyncEv>>]

\* get_next_FAT_table_entry: the value returned
FatValue(fs, c) == IF c \in DOMAIN fs.fat THEN fs.fat[c] ELSE fs.buf

\* get_next_FAT_table_entry: the transfer buffer afterwards
FatRead(fs, c) ==
  [fs EXCEPT !.buf = FatValue(fs, c), !.io = Append(@, Ev("read", "fat", c, 0))]

\* a write_fat_table_entry that returns without the fsync
FatWriteUnflushed(fs, c, value) ==
  IF c \in DOMAIN fs.fat
  THEN [fs EXCEPT !.fat[c] = value, !.buf = value,
                  !.io = Append(@, Ev("write", "fat", c, value))]
  ELSE [fs EXCEPT !.buf = value, !.stray = TRUE,
                  !.io = Append(@, Ev("write", "fat", c, value))]

\* write_fat_table_entry: lseek, write, fsync
FatWrite(fs, c, value) ==
  IF c \in DOMAIN fs.fat
  THEN [fs EXCEPT !.fat[c] = value, !.buf = value,
                  !.io = @ \o <<Ev("write", "fat", c, value), FsyncEv>>]
  ELSE [fs EXCEPT !.buf = value, !.stray = TRUE,
                  !.io = @ \o <<Ev("write", "fat", c, value), FsyncEv>>]

\* for (i = 0; i < n; i++) current_cluster = get_next_FAT_table_entry(...)
RECURSIVE WalkChain(_, _, _)
WalkChain(fs, c, n) ==
  IF n <= 0 THEN [fs |-> fs, cur |-> c]
  ELSE WalkChain(FatRead(fs, c), FatValue(fs, c), n - 1)

\* the scan of write_bytes_to_file for a free cluster: the first j from
\* root_directory_cluster_number + N_ROOT_DIRECTORY_CLUSTERS below
\* usable_clusters_size whose entry is free, 0 when there is none
\* a scan that also takes a cluster marked end of chain
RECURSIVE ScanFreeOrEnd(_, _)
ScanFreeOrEnd(f, j) ==
  IF j >= usable_clusters_size THEN 0
  ELSE IF f[j] = FAT_TABLE_FREE_CLUSTER_VALUE \/ f[j] >= FAT_TABLE_END_OF_FILE_VALUE THEN j
  ELSE ScanFreeOrEnd(f, j + 1)

RECURSIVE ScanFree(_, _)
ScanFree(f, j) ==
  IF j >= usable_clusters_size THEN 0
  ELSE IF f[j] = FAT_TABLE_FREE_CLUSTER_VALUE THEN j
  ELSE ScanFree(f, j + 1)

FindFreeCluster(f) == ScanFree(f, root_directory_cluster_number + N_ROOT_DIRECTORY_CLUSTERS)

\* the FAT entries the scan reads: from the first data cluster up to the
\* free one it stops at, or to the end of the scanned range
RECURSIVE ScanReads(_, _, _)
ScanReads(fs, j, free_cluster) ==
  IF j >= usable_clusters_size THEN fs
  ELSE IF j = free_cluster THEN FatRead(fs, j)
  ELSE ScanReads(FatRead(fs, j), j + 1, free_cluster)

\* ---- data clusters ----
\* Cluster c is read and written at root_directory_cluster_offset +
\* (c - 2) * cluster bytes in 32-bit unsigned arithmetic. Clusters 3..FatLast
\* are the data clusters of the model. Cluster 2 is the root directory; the
\* numbers 0, 1 and the values from 0x0FFFFFF0 wrap to addresses a few
\* clusters before the data region. These regions are read as the tokens
\* RawCluster(c); any other number lies behind the end of the image.
DataClusters == (root_directory_cluster_number + N_ROOT_DIRECTORY_CLUSTERS)..FatLast
BeforeData(c) == c <= root_directory_cluster_number \/ c >= FAT_TABLE_RESERVED_CLUSTER_VALUE
RawCluster(c) == [k \in 1..CLUSTERSIZE |-> 0 - (c * CLUSTERSIZE + k)]

\* read_cluster: the buffer afterwards (a short read leaves it as it was)
ReadCluster(dat, c, buffer) ==
  IF c \in DataClusters THEN dat[c]
  ELSE IF BeforeData(c) THEN RawCluster(c)
  ELSE buffer

\* write_cluster: the data clusters afterwards
WriteCluster(dat, c, buffer) ==
  IF c \in DataClusters THEN [dat EXCEPT ![c] = buffer] ELSE dat

\* write_cluster: the write changes bytes of the image outside the data clusters
StrayWrite(c, buffer) == c \notin DataClusters /\ buffer # RawCluster(c)

\* ---- write_bytes_to_file ----
\* size / CLUSTERSIZE + (size % CLUSTERSIZE != 0)
ClustersFor(n) == (n \div CLUSTERSIZE) + (IF n % CLUSTERSIZE # 0 THEN 1 ELSE 0)

\* a test that also rejects the offset at the end of the file
OffsetAtOrPastEnd(start_offset, size) == start_offset >= size

\* the test that rejects the start offset
OffsetTooLarge(start_offset, size) == start_offset > size

\* a pass of the allocation loop that leaves the new cluster unmarked
LinkClusterUnmarked(fs, e, current_cluster, free_cluster) ==
  LET e2 == IF current_cluster = 0
            THEN [e EXCEPT !.starthi = free_cluster \div 65536,
                           !.start = free_cluster % 65536]
            ELSE e
      fs2 == IF current_cluster = 0 THEN fs
             ELSE FatWrite(fs, current_cluster, free_cluster)
  IN [fs |-> fs2, e |-> e2]

\* a pass of the allocation loop that installs every new cluster as the first
\* cluster of the entry
LinkClusterAsFirst(fs, e, current_cluster, free_cluster) ==
  [fs |-> FatWrite(fs, free_cluster, FAT_TABLE_END_OF_FILE_VALUE),
   e |-> [e EXCEPT !.starthi = free_cluster \div 65536, !.start = free_cluster % 65536]]

\* one pass of the allocation loop: link free_cluster behind current_cluster
\* (or make it the first cluster of the entry), then mark it end of file
LinkCluster(fs, e, current_cluster, free_cluster) ==
  LET e2 == IF current_cluster = 0
            THEN [e EXCEPT !.starthi = free_cluster \div 65536,
                           !.start = free_cluster % 65536]
            ELSE e
      fs2 == IF current_cluster = 0 THEN fs
             ELSE FatWrite(fs, current_cluster, free_cluster)
  IN [fs |-> FatWrite(fs2, free_cluster, FAT_TABLE_END_OF_FILE_VALUE), e |-> e2]

\* for (i = 0; i < clusters_needed; i++) { find, link, advance }
RECURSIVE AllocateClusters(_, _, _, _)
AllocateClusters(fs, e, current_cluster, clusters_needed) ==
  IF clusters_needed <= 0 THEN [ok |-> TRUE, fs |-> fs, e |-> e]
  ELSE LET free_cluster == FindFreeCluster(fs.fat)
           scanned == ScanReads(fs, root_directory_cluster_number + N_ROOT_DIRECTORY_CLUSTERS,
                                free_cluster)
       IN IF free_cluster = 0 THEN [ok |-> FALSE, fs |-> scanned, e |-> e]
          ELSE LET l == LinkCluster(scanned, e, current_cluster, free_cluster)
               IN AllocateClusters(l.fs, l.e, free_cluster, clusters_needed - 1)

\* the byte loop: i bytes are still to write, the buffer holds current_cluster
RECURSIVE FillBytes(_, _, _, _, _, _, _, _)
FillBytes(fs, dat, stray, current_cluster, cluster_offset, buffer, i, byte) ==
  IF i <= 0
  THEN [data |-> WriteCluster(dat, current_cluster, buffer),
        stray |-> stray \/ StrayWrite(current_cluster, buffer),
        fs |-> LogWrite(fs, "data", current_cluster)]
  ELSE LET b2 == [buffer EXCEPT ![cluster_offset + 1] = byte]
       IN IF cluster_offset + 1 = CLUSTERSIZE
          THEN LET dat2 == WriteCluster(dat, current_cluster, b2)
                   next == FatValue(fs, current_cluster)
                   fs2 == FatRead(LogWrite(fs, "data", current_cluster), current_cluster)
               IN FillBytes(LogRead(fs2, "data", next), dat2,
                            stray \/ StrayWrite(current_cluster, b2),
                            next, 0, ReadCluster(dat2, next, b2), i - 1, byte)
          ELSE FillBytes(fs, dat, stray, current_cluster, cluster_offset + 1,
                         b2, i - 1, byte)

\* a data phase that starts in the first cluster whatever the offset
WriteDataNoWalk(fs, dat, e, start_offset, length, byte) ==
  LET first == ReadCluster(dat, FirstCluster(e), [k \in 1..CLUSTERSIZE |-> 0])
  IN FillBytes(LogRead(fs, "data", FirstCluster(e)), dat, FALSE, FirstCluster(e),
               start_offset % CLUSTERSIZE, first, length, byte)

\* the data phase: walk to the cluster of start_offset, then fill
WriteData(fs, dat, e, start_offset, length, byte) ==
  \* cluster_buffer is a local array; every cluster the walk can end on from
  \* a chain at least as long as the offset needs is read in full
  LET w == WalkChain(fs, FirstCluster(e), start_offset \div CLUSTERSIZE)
      first == ReadCluster(dat, w.cur, [k \in 1..CLUSTERSIZE |-> 0])
  IN FillBytes(LogRead(w.fs, "data", w.cur), dat, FALSE, w.cur,
               start_offset % CLUSTERSIZE, first, length, byte)

\* read_root_directory: the root directory cluster is read before the search
RootRead(f) == LogRead(FatDev(f), "dir", root_directory_cluster_number)

\* an entry that is not written to the root directory
PersistEntryNever(fs, index) == fs

\* write_file_directory_entry: lseek, write of the 32 bytes of the slot, fsync
PersistEntry(fs, index) == LogWrite(fs, "dir", index)

\* a size that is set to the end of the written range whatever it was
SizeAlwaysSet(e, start_offset, length) == [e EXCEPT !.size = start_offset + length]

\* if (start_offset + length > size) size = start_offset + length
SizeAfter(e, start_offset, length) ==
  IF start_offset + length > e.size
  THEN [e EXCEPT !.size = start_offset + length]
  ELSE e

\* the whole command on the image (f, d, dat): the image afterwards, the
\* message that ends the command and the calls made on the descriptor
WriteBytesToFile(f, d, dat, input, start_offset, length, byte) ==
  LET index == FindGivenEntry(d, input)
      same == [fat |-> f, dir |-> d, data |-> dat, stray |-> FALSE, io |-> RootRead(f).io]
  IN IF index = FAILURE THEN same @@ [res |-> "File not found!"]
     ELSE IF start_offset < 0 THEN same @@ [res |-> "Start offset is invalid!"]
     ELSE IF OffsetTooLarge(start_offset, d[index].size)
          THEN same @@ [res |-> "Start offset is larger than the file size!"]
     ELSE
       LET e == d[index]
           file_cluster_size == ClustersFor(e.size)
           clusters_needed == ClustersFor(start_offset + length) - file_cluster_size
           last == WalkChain(RootRead(f), FirstCluster(e), file_cluster_size - 1)
           a == IF clusters_needed > 0
                THEN AllocateClusters(last.fs, e, last.cur, clusters_needed)
                ELSE [ok |-> TRUE, fs |-> RootRead(f), e |-> e]
       IN IF ~a.ok
          THEN [fat |-> a.fs.fat, dir |-> d, data |-> dat, stray |-> a.fs.stray,
                io |-> a.fs.io, res |-> "No free clusters available!"]
          ELSE
            LET e2 == SizeAfter(a.e, start_offset, length)
                w == WriteData(PersistEntry(a.fs, index), dat, e2, start_offset, length, byte)
            IN [fat |-> w.fs.fat, dir |-> [d EXCEPT ![index] = e2], data |-> w.data,
                stray |-> a.fs.stray \/ w.stray \/ w.fs.stray, io |-> w.fs.io,
                res |-> "Bytes written to the file successfully!"]

\* ---- delete_file ----
\* a loop that frees the clusters by number, from the first cluster of the
\* file to the end of the table
RECURSIVE FreeChainByNumber(_, _, _, _)
FreeChainByNumber(fs, current_cluster, next_cluster, fuel) ==
  IF current_cluster \notin DataClusters \/ fuel <= 0 THEN fs
  ELSE FreeChainByNumber(FatWrite(fs, current_cluster, FAT_TABLE_FREE_CLUSTER_VALUE),
                         current_cluster + 1, next_cluster, fuel - 1)

\* while (current_cluster < EOF && current_cluster > 1) { free; advance }
\* fuel bounds the unfolding: a pass frees an entry of the table or leaves it
RECURSIVE FreeChain(_, _, _, _)
FreeChain(fs, current_cluster, next_cluster, fuel) ==
  IF ~(current_cluster < FAT_TABLE_END_OF_FILE_VALUE /\ current_cluster > 1) \/ fuel <= 0
  THEN fs
  ELSE LET fs2 == FatWrite(fs, current_cluster, FAT_TABLE_FREE_CLUSTER_VALUE)
       IN FreeChain(FatRead(fs2, next_cluster), next_cluster,
                    FatValue(fs2, next_cluster), fuel - 1)

\* a delete that also clears the first cluster and the size of the entry
TombstoneWholeEntry(e) ==
  [e EXCEPT !.name[1] = DELETED, !.starthi = 0, !.start = 0, !.size = 0]

\* name[0] = 0xE5, then the first 2 bytes of the entry are written back
Tombstone(e) == [e EXCEPT !.name[1] = DELETED]

DeleteFile(f, d, input) ==
  LET index == FindGivenEntry(d, input)
  IN IF index = FAILURE
     THEN [fat |-> f, dir |-> d, stray |-> FALSE, io |-> RootRead(f).io,
           res |-> "File not found!"]
     ELSE LET current_cluster == FirstCluster(d[index])
              fs0 == FatRead(RootRead(f), current_cluster)
              fs == FreeChain(fs0, current_cluster, fs0.buf, FatLast + 2)
          IN [fat |-> fs.fat, dir |-> [d EXCEPT ![index] = Tombstone(d[index])],
              stray |-> fs.stray, io |-> LogWrite(fs, "dir", index).io,
              res |-> "File deleted successfully!"]

\* ---- create_file_entry ----
CreateFileEntry(d, input) ==
  LET first == LogRead([io |-> <<>>], "dir", root_directory_cluster_number)
      second == LogRead(first, "dir", root_directory_cluster_number)
  IN IF FindGivenEntry(d, input) # FAILURE
     THEN [dir |-> d, io |-> first.io, res |-> "File already exists!"]
     ELSE LET index == FindFreeEntry(d)
          IN IF index = FAILURE
             THEN [dir |-> d, io |-> second.io, res |-> "Root directory is full!"]
             ELSE [dir |-> [d EXCEPT ![index] = NewFileEntry(input)],
                   io |-> PersistEntry(second, index).io,
                   res |-> "File created successfully!"]

\* ---- read_file ----
\* the bytes of one output line in binary mode: 16 in the program, where a
\* cluster is a whole number of lines; scaled with the cluster to one line
LineBytes == CLUSTERSIZE

\* the bytes of one cluster that are printed: up to the byte at file
\* position size - 1
ClusterOutput(buffer, i, size) ==
  SubSeq(buffer, 1, IF size - i < CLUSTERSIZE THEN size - i ELSE CLUSTERSIZE)

\* a line prefix that counts from the start of the cluster
RECURSIVE PrintBinaryClusterOffset(_, _, _, _)
PrintBinaryClusterOffset(buffer, i, k, size) ==
  IF k >= CLUSTERSIZE THEN <<>>
  ELSE (IF k % LineBytes = 0 THEN << <<"offset", k>> >> ELSE <<>>)
       \o << <<"byte", buffer[k + 1]>> >>
       \o (IF (k + 1) % LineBytes = 0 THEN << <<"nl">> >> ELSE <<>>)
       \o (IF i + k = size - 1 THEN << <<"nl">> >>
           ELSE PrintBinaryClusterOffset(buffer, i, k + 1, size))

\* the binary print loop over one cluster, from byte k: the offset of the
\* line before its first byte, each byte, a new line after the last byte of
\* a line and after the last byte of the file
RECURSIVE PrintBinary(_, _, _, _)
PrintBinary(buffer, i, k, size) ==
  IF k >= CLUSTERSIZE THEN <<>>
  ELSE (IF k % LineBytes = 0 THEN << <<"offset", i + k>> >> ELSE <<>>)
       \o << <<"byte", buffer[k + 1]>> >>
       \o (IF (k + 1) % LineBytes = 0 THEN << <<"nl">> >> ELSE <<>>)
       \o (IF i + k = size - 1 THEN << <<"nl">> >>
           ELSE PrintBinary(buffer, i, k + 1, size))

\* for (i = 0; i < size; i += CLUSTERSIZE) { stop at end of chain; read; print; advance }
\* In ASCII mode the output is the sequence of content bytes; in binary mode
\* it is the sequence of offsets, bytes and new lines printed.
RECURSIVE ReadClusters(_, _, _, _, _, _, _, _)
ReadClusters(fs, dat, current_cluster, next_cluster, buffer, i, size, is_binary) ==
  IF i >= size THEN <<>>
  ELSE IF current_cluster >= FAT_TABLE_END_OF_FILE_VALUE
       THEN (IF is_binary THEN << <<"nl">> >> ELSE <<>>)
  ELSE LET b == ReadCluster(dat, current_cluster, buffer)
       IN (IF is_binary THEN PrintBinary(b, i, 0, size) ELSE ClusterOutput(b, i, size))
          \o ReadClusters(FatRead(fs, next_cluster), dat, next_cluster,
                          FatValue(fs, next_cluster), b, i + CLUSTERSIZE, size,
                          is_binary)

\* the content bytes read_file prints for the entry e in ASCII mode
FileContent(f, dat, e) ==
  LET fs0 == FatRead(FatDev(f), FirstCluster(e))
  IN ReadClusters(fs0, dat, FirstCluster(e), fs0.buf,
                  [k \in 1..CLUSTERSIZE |-> 0], 0, e.size, FALSE)

\* what read_file prints for the entry e in binary mode
FileDump(f, dat, e) ==
  LET fs0 == FatRead(FatDev(f), FirstCluster(e))
  IN ReadClusters(fs0, dat, FirstCluster(e), fs0.buf,
                  [k \in 1..CLUSTERSIZE |-> 0], 0, e.size, TRUE)

ReadFile(f, d, dat, input, is_binary) ==
  LET index == FindGivenEntry(d, input)
  IN IF index = FAILURE THEN [out |-> <<>>, res |-> "File not found!"]
     ELSE [out |-> IF is_binary THEN FileDump(f, dat, d[index])
                   ELSE FileContent(f, dat, d[index]),
           res |-> "Succesfully read!"]

\* ---- main: the boot sector and the geometry derived from it ----
SECTORSIZE == 512
FAT_TABLE_ENTRY_SIZE == 4
N_RESERVED_SECTORS == 32
N_FAT_TABLES == 1
ASSUMED_SEC_PER_CLUS == 2
ASSUMED_ROOT_DIRECTORY_CLUSTER == 2
MAX_NUMBER_OF_CLUSTERS_FAT_TABLE == 268435456

\* the fields of struct fat_boot_sector that main reads
DefaultBoot ==
  [sector_size |-> SECTORSIZE, sec_per_clus |-> ASSUMED_SEC_PER_CLUS,
   reserved |-> N_RESERVED_SECTORS, fats |-> N_FAT_TABLES,
   root_cluster |-> ASSUMED_ROOT_DIRECTORY_CLUSTER, fat_length |-> 0,
   fat32_length |-> 1, total_sect |-> 64]

\* the division of C on int operands: the quotient is truncated toward zero
CDiv(a, b) ==
  IF (a >= 0 /\ b > 0) \/ (a <= 0 /\ b < 0) THEN a \div b
  ELSE 0 - ((0 - a) \div b)

\* (total_sectors - reserved_sectors - fat_size * number_of_fat_tables) / sectors_per_cluster.
\* With sec_per_clus = 0 the division is undefined: the process is stopped
\* by a signal, or the division yields a value without a trap (0 here).
Quotients(b) ==
  IF b.sec_per_clus # 0
  THEN {[fault |-> FALSE,
         value |-> CDiv(b.total_sect - b.reserved - b.fat32_length * b.fats, b.sec_per_clus)]}
  ELSE {[fault |-> TRUE, value |-> 0], [fault |-> FALSE, value |-> 0]}

\* the warnings printed while the fields are read, in the order of main
Warnings(b) ==
  (IF b.reserved # N_RESERVED_SECTORS THEN <<"reserved">> ELSE <<>>)
  \o (IF b.sec_per_clus # ASSUMED_SEC_PER_CLUS THEN <<"sec_per_clus">> ELSE <<>>)
  \o (IF b.root_cluster # ASSUMED_ROOT_DIRECTORY_CLUSTER THEN <<"root_cluster">> ELSE <<>>)
  \o (IF b.fats # N_FAT_TABLES THEN <<"fats">> ELSE <<>>)
  \o (IF b.sector_size # SECTORSIZE THEN <<"sector_size">> ELSE <<>>)
  \o (IF b.sec_per_clus # ASSUMED_SEC_PER_CLUS THEN <<"sec_per_clus">> ELSE <<>>)
  \o (IF b.fat_length # b.fat32_length THEN <<"fat_length">> ELSE <<>>)

\* fat_size * SECTORSIZE / FAT_TABLE_ENTRY_SIZE - 2 * FAT_TABLE_ENTRY_SIZE
FatTableEntries(b) ==
  (b.fat32_length * SECTORSIZE) \div FAT_TABLE_ENTRY_SIZE - 2 * FAT_TABLE_ENTRY_SIZE

\* the globals main sets from the boot sector b, quotient being the value
\* of the division by sectors_per_cluster
Geometry(b, quotient) ==
  LET capped == IF quotient > MAX_NUMBER_OF_CLUSTERS_FAT_TABLE
                THEN MAX_NUMBER_OF_CLUSTERS_FAT_TABLE ELSE quotient
      table == FatTableEntries(b)
      usable == IF table <= capped THEN table ELSE capped
  IN [derived |-> TRUE,
      warnings |-> Warnings(b),
      root_directory_cluster_offset |-> (b.reserved + b.fat32_length * b.fats) * SECTORSIZE,
      fat_table_offset |-> b.reserved * SECTORSIZE,
      usable_clusters_size |-> usable,
      usable_fat_table_size |-> usable]

\* the globals before main has set them
NoGeometry ==
  [derived |-> FALSE, warnings |-> <<>>, root_directory_cluster_offset |-> 0,
   fat_table_offset |-> 0, usable_clusters_size |-> 0, usable_fat_table_size |-> 0]

\* ---- the commands ----
\* fat, dir, data, damaged: the image. last: the command that ran last, its
\* name argument and the message that ended it. out: what a list or read command printed.
\* ncmd: how many commands have run. fd: the descriptor of the image at the
\* return from main of the command that ran last. boot: the boot sector of
\* the image. geometry: the globals the process that ran last derived from
\* it. status: the exit status of that process (128 + n when signal n ended it).
\* The image of the model keeps its scaled geometry; the boot sector counts
\* for the startup of main only.
VARIABLES fat, dir, data, damaged, last, out, ncmd, fd, boot, geometry, status, loop

vars == <<fat, dir, data, damaged, last, out, ncmd, fd, boot, geometry, status, loop>>

\* loop: the command in progress when its loops are followed pass by pass
\* (op, pc), with the locals current_cluster, next_cluster and i of the loop
\* and the transfer buffer fat_table_entry; idle while commands run as a whole
NoLoop ==
  [pc |-> "idle", op |-> "none", current_cluster |-> 0, next_cluster |-> 0,
   i |-> 0, buf |-> 0]

\* the name arguments tried (argv as typed, before check_set_file_name)
InputNames ==
  { <<"a", DOT, "b">>,
    <<"A", "B", "C", "D", "E", "F", "G", "H">>,
    <<"A", "B", "C", "D", "E", "F", "G", "H", DOT, "T">>,
    <<"A", "B", "C", "D", "E", "F", "G", "H", DOT, "T", "X", "T">> }

\* the BYTE arguments tried
Bytes == {65, 66}

Outcome(op, name, res) == [op |-> op, name |-> name, res |-> res]

\* main: the branches of -c, -w and -d return from main right after a
\* FAILURE of the command, the other paths run on to the close(fd) that ends
\* main
AtReturn(op, failed) ==
  IF failed /\ op \in {"create", "write", "delete"} THEN "open" ELSE "closed"

\* main: every command with a name argument checks it first and returns on
\* an invalid name
InvalidName(op, name) ==
  /\ ~CheckFileName(name)
  /\ last' = Outcome(op, name, "File name is invalid!")
  /\ out' = <<>>
  /\ fd' = "open"
  /\ status' = 0
  /\ UNCHANGED <<fat, dir, data, damaged>>

\* main: a command line that lacks operands of its option (-r, -c, -w, -d)
\* returns at once; an option that is none of -l, -r, -c, -w, -d is reported
\* at the end of the chain of branches
InvalidArguments(option) ==
  /\ last' = Outcome(option, <<>>, "Invalid arguments. Please enter -h for help")
  /\ out' = <<>>
  /\ fd' = (IF option = "unknown" THEN "closed" ELSE "open")
  /\ status' = 0
  /\ UNCHANGED <<fat, dir, data, damaged>>

\* a freshly formatted volume: entries 0 and 1 reserved, the root directory
\* a one-cluster chain, every slot never used, every data byte zero
Init ==
  /\ fat = [c \in 0..FatLast |->
              IF c = 0 THEN FAT_TABLE_END_OF_FILE_VALUE
              ELSE IF c = 1 THEN FAT_TABLE_LAST_CLUSTER_VALUE
              ELSE IF c = root_directory_cluster_number THEN FAT_TABLE_END_OF_FILE_VALUE
              ELSE FAT_TABLE_FREE_CLUSTER_VALUE]
  /\ dir = [i \in 0..(root_directory_max_content_size - 1) |-> ZeroEntry]
  /\ data = [c \in DataClusters |-> [k \in 1..CLUSTERSIZE |-> 0]]
  /\ damaged = FALSE
  /\ last = Outcome("none", <<>>, "")
  /\ out = <<>>
  /\ ncmd = 0
  /\ fd = "closed"
  /\ boot = DefaultBoot
  /\ geometry \in {Geometry(DefaultBoot, q.value) : q \in Quotients(DefaultBoot)}
  /\ status = 0
  /\ loop = NoLoop

\* fatmod DISK -l
List ==
  /\ last' = Outcome("list", <<>>, "")
  /\ out' = ListDirectories(dir)
  /\ fd' = AtReturn("list", FALSE)
  /\ status' = 0
  /\ UNCHANGED <<fat, dir, data, damaged>>

\* fatmod DISK -c NAME
Create(name) ==
  \/ InvalidName("create", name)
  \/ /\ CheckFileName(name)
     /\ \E r \in {CreateFileEntry(dir, SetFileName(name))} :
           /\ dir' = r.dir
           /\ last' = Outcome("create", name, r.res)
           /\ fd' = AtReturn("create", r.res # "File created successfully!")
           /\ status' = 0
     /\ out' = <<>>
     /\ UNCHANGED <<fat, data, damaged>>

\* fatmod DISK -w NAME OFFSET LENGTH BYTE
Write(name, off, len, byte) ==
  \/ InvalidName("write", name)
  \/ /\ CheckFileName(name)
     /\ \E r \in {WriteBytesToFile(fat, dir, data, SetFileName(name), off, len, byte)} :
           /\ fat' = r.fat
           /\ dir' = r.dir
           /\ data' = r.data
           /\ damaged' = (damaged \/ r.stray)
           /\ last' = Outcome("write", name, r.res)
           /\ fd' = AtReturn("write", r.res # "Bytes written to the file successfully!")
           /\ status' = 0
     /\ out' = <<>>

\* fatmod DISK -r -a NAME and fatmod DISK -r -b NAME
Read(name, is_binary) ==
  \/ InvalidName("read", name)
  \/ /\ CheckFileName(name)
     /\ \E r \in {ReadFile(fat, dir, data, SetFileName(name), is_binary)} :
           /\ out' = r.out
           /\ last' = Outcome("read", name, r.res)
           /\ fd' = AtReturn("read", r.res # "Succesfully read!")
           /\ status' = 0
     /\ UNCHANGED <<fat, dir, data, damaged>>

\* fatmod DISK -d NAME
Delete(name) ==
  \/ InvalidName("delete", name)
  \/ /\ CheckFileName(name)
     /\ \E r \in {DeleteFile(fat, dir, SetFileName(name))} :
           /\ fat' = r.fat
           /\ dir' = r.dir
           /\ damaged' = (damaged \/ r.stray)
           /\ last' = Outcome("delete", name, r.res)
           /\ fd' = AtReturn("delete", r.res # "File deleted successfully!")
           /\ status' = 0
     /\ out' = <<>>
     /\ UNCHANGED data

\* one more invocation of the program
Invoke == ncmd < MaxCmds /\ ncmd' = ncmd + 1 /\ UNCHANGED <<boot, geometry, loop>>

Next ==
  \/ Invoke /\ List
  \/ \E name \in InputNames : Invoke /\ Create(name)
  \/ \E name \in InputNames, off \in 0..MaxOff, len \in 0..MaxLen, byte \in Bytes :
       Invoke /\ Write(name, off, len, byte)
  \/ \E name \in InputNames, is_binary \in BOOLEAN : Invoke /\ Read(name, is_binary)
  \/ \E name \in InputNames : Invoke /\ Delete(name)
  \/ \E option \in {"read", "create", "write", "delete", "unknown"} :
       Invoke /\ InvalidArguments(option)

Spec == Init /\ [][Next]_vars

\* ---- well-formedness of the volume (data model invariants) ----
\* the clusters visited from c while the value is a cluster of the volume,
\* at most n of them
RECURSIVE ChainFrom(_, _, _)
ChainFrom(f, c, n) ==
  IF n <= 0 \/ c \notin 2..FatLast THEN <<>>
  ELSE <<c>> \o ChainFrom(f, f[c], n - 1)

\* the chain of the entry e; empty when its first cluster is 0
ChainOf(f, e) == ChainFrom(f, FirstCluster(e), usable_clusters_size + 1)

\* walking e's chain ends at an end-of-chain value within usable_clusters
\* steps, over distinct clusters of [2, usable_clusters + 1], none of them free
ChainIntact(f, e) ==
  LET ch == ChainOf(f, e)
  IN \/ FirstCluster(e) = 0
     \/ /\ Len(ch) >= 1
        /\ Len(ch) <= usable_clusters_size
        /\ \A i, j \in 1..Len(ch) : i # j => ch[i] # ch[j]
        /\ \A i \in 1..Len(ch) : f[ch[i]] # FAT_TABLE_FREE_CLUSTER_VALUE
        /\ f[ch[Len(ch)]] >= FAT_TABLE_END_OF_FILE_VALUE

LiveSlots(d) == {i \in DOMAIN d : IsLiveFile(d[i])}
ClusterSet(f, e) == {ChainOf(f, e)[i] : i \in 1..Len(ChainOf(f, e))}

SizeAgrees(f, e) ==
  LET n == Len(ChainOf(f, e))
  IN /\ e.size <= n * CLUSTERSIZE
     /\ n >= 1 => e.size > (n - 1) * CLUSTERSIZE
     /\ (e.size = 0) <=> (FirstCluster(e) = 0)
     /\ (FirstCluster(e) = 0) <=> (n = 0)

MsgCreated == "File created successfully!"
MsgDeleted == "File deleted successfully!"
MsgWritten == "Bytes written to the file successfully!"
MsgRead == "Succesfully read!"
MsgNotFound == "File not found!"
MsgOffset == "Start offset is larger than the file size!"
MsgExists == "File already exists!"
MsgFull == "Root directory is full!"
MsgName == "File name is invalid!"
MsgNoSpace == "No free clusters available!"

Succeeded(l) == l.op = "list" \/ l.res \in {MsgCreated, MsgDeleted, MsgWritten, MsgRead}
FailedWithoutIO(l) ==
  l.res \in {MsgNotFound, MsgOffset, MsgExists, MsgFull, MsgName, MsgNoSpace}

\* ---- C1 ----
\* C1: in every state reached by create / write / delete commands from the
\* formatted volume, the chain of every live file ends at an end-of-chain
\* entry within usable_clusters steps, visits pairwise distinct clusters of
\* [2, usable_clusters + 1] and never a free entry.
ChainIntegrity == \A i \in LiveSlots(dir) : ChainIntact(fat, dir[i])

\* a write has just grown a file to a chain of three clusters
ChainIntegrityWitness ==
  /\ last.op = "write" /\ last.res = MsgWritten
  /\ \E i \in LiveSlots(dir) : Len(ChainOf(fat, dir[i])) >= 3

\* ---- C2 ----
\* C2: no cluster is on the chains of two different live files.
NoSharing ==
  \A i, j \in LiveSlots(dir) :
    i # j => ClusterSet(fat, dir[i]) \cap ClusterSet(fat, dir[j]) = {}

\* two live files, each with a chain of its own
NoSharingWitness ==
  \E i, j \in LiveSlots(dir) :
    /\ i # j
    /\ ClusterSet(fat, dir[i]) # {}
    /\ ClusterSet(fat, dir[j]) # {}

\* ---- C3 ----
\* C3: after any successful command every live file has
\* size <= chain_length * cluster_size, size > (chain_length - 1) * cluster_size
\* when the chain is not empty, and size = 0 <=> first cluster = 0 <=> chain empty.
SizeChainAgreement ==
  Succeeded(last) => \A i \in LiveSlots(dir) : SizeAgrees(fat, dir[i])

\* ---- inputs of the claims ----
\* the name arguments that pass check_set_file_name and name a live file
FoundNames == {n \in InputNames : CheckFileName(n) /\ FindGivenEntry(dir, SetFileName(n)) # FAILURE}

\* the write arguments tried
WriteArgs == (0..MaxOff) \X (0..MaxLen) \X Bytes

\* the position of the first '.' in str, 0 when there is none
RECURSIVE FirstDot(_, _)
FirstDot(str, i) ==
  IF i > Len(str) THEN 0 ELSE IF str[i] = DOT THEN i ELSE FirstDot(str, i + 1)

\* a valid 8.3 name: a base of 1..8 and an extension of 0..3 characters from
\* letters, digits, '_' and '-', joined by one '.' when there is an extension
Valid83(str) ==
  LET dot == FirstDot(str, 1)
      base == IF dot = 0 THEN str ELSE SubSeq(str, 1, dot - 1)
      ext == IF dot = 0 THEN <<>> ELSE SubSeq(str, dot + 1, Len(str))
  IN /\ Len(base) \in 1..FILENAME_SIZE
     /\ dot # 0 => Len(ext) \in 1..FILE_EXTENSION_SIZE
     /\ \A i \in 1..Len(base) : IsNameChar(base[i])
     /\ \A i \in 1..Len(ext) : IsNameChar(ext[i])

\* uppercase(name)
Uppercase(str) == [i \in 1..Len(str) |-> toupper(str[i])]

\* the lines of a listing that show the file name nm
LinesOf(listing, nm) == {k \in 1..Len(listing) : listing[k][1] = nm}

FreeEntries(f) == {c \in DOMAIN f : f[c] = FAT_TABLE_FREE_CLUSTER_VALUE}

\* ---- C4 ----
\* C4: for every live file N of size S, every offset O <= S, length L and
\* byte B, after a successful write(N, O, L, B) reading N back yields B at
\* every position of [O, O+L) and the byte read before at every other
\* position below S.
WriteLocality ==
  \A n \in FoundNames : \A a \in WriteArgs :
    LET nm == SetFileName(n)
        old == ReadFile(fat, dir, data, nm, FALSE).out
        r == WriteBytesToFile(fat, dir, data, nm, a[1], a[2], a[3])
        new == ReadFile(r.fat, r.dir, r.data, nm, FALSE).out
    IN r.res = MsgWritten =>
         /\ Len(new) >= a[1] + a[2]
         /\ Len(new) >= Len(old)
         /\ \A p \in 0..(Len(new) - 1) :
              IF a[1] <= p /\ p < a[1] + a[2] THEN new[p + 1] = a[3]
              ELSE p < Len(old) => new[p + 1] = old[p + 1]

\* a write succeeded and left a file of two clusters or more whose content
\* holds both byte values: a part of it was written over or appended to
WriteLocalityWitness ==
  /\ last.op = "write" /\ last.res = MsgWritten
  /\ \E i \in LiveSlots(dir) :
       LET content == FileContent(fat, data, dir[i])
       IN /\ Len(content) > CLUSTERSIZE
          /\ \E p, q \in 1..Len(content) : content[p] = 65 /\ content[q] = 66

\* ---- C5 ----
\* C5: after a successful write with O + L > size the entry's size is O + L
\* and the chain has ceil((O + L) / cluster_size) clusters.
AppendMonotonic ==
  \A n \in FoundNames : \A a \in WriteArgs :
    LET nm == SetFileName(n)
        index == FindGivenEntry(dir, nm)
        r == WriteBytesToFile(fat, dir, data, nm, a[1], a[2], a[3])
    IN r.res = MsgWritten /\ a[1] + a[2] > dir[index].size =>
         /\ r.dir[index].size = a[1] + a[2]
         /\ Len(ChainOf(r.fat, r.dir[index])) = ClustersFor(a[1] + a[2])

\* ---- C6 ----
\* C6: after a successful delete N of a file with a well-formed chain every
\* cluster that was on N's chain is free, byte 0 of N's slot is 0xE5, and N
\* is no longer found nor listed.
DeleteReclaims ==
  [][\A n \in FoundNames :
       LET nm == SetFileName(n)
           index == FindGivenEntry(dir, nm)
       IN last' = Outcome("delete", n, MsgDeleted) /\ ChainIntact(fat, dir[index]) =>
            /\ \A c \in ClusterSet(fat, dir[index]) : fat'[c] = FAT_TABLE_FREE_CLUSTER_VALUE
            /\ dir'[index].name[1] = DELETED
            /\ FindGivenEntry(dir', nm) = FAILURE
            /\ LinesOf(ListDirectories(dir'), nm) = {}]_vars

\* ---- C7 ----
\* C7: for any valid 8.3 name N not on the volume (a free slot being
\* there), after create N the listing has exactly one entry uppercase(N) of
\* size 0; after delete N the listing has none and the free FAT entries are
\* those before the create.
CreateListDeleteRoundTrip ==
  [][\A n \in InputNames :
       LET nm == Uppercase(n)
       IN /\ last'.op = "create" /\ last'.name = n
          /\ Valid83(n)
          /\ LinesOf(ListDirectories(dir), nm) = {}
          /\ FindFreeEntry(dir) # FAILURE
          => LET after == ListDirectories(dir')
                 d == DeleteFile(fat', dir', nm)
             IN /\ last'.res = MsgCreated
                /\ Cardinality(LinesOf(after, nm)) = 1
                /\ \A k \in LinesOf(after, nm) : after[k] = <<nm, 0>>
                /\ d.res = MsgDeleted
                /\ LinesOf(ListDirectories(d.dir), nm) = {}
                /\ FreeEntries(d.fat) = FreeEntries(fat)]_vars

\* ---- C8 ----
\* C8: for every valid 8.3 name, the 11 name bytes a successful create
\* stores decode to uppercase(name), and a find of the name right after the
\* create locates the slot just written.
NameRoundTrip ==
  [][\A n \in InputNames :
       LET slot == FindFreeEntry(dir)
       IN last' = Outcome("create", n, MsgCreated) /\ Valid83(n) =>
            /\ DecodeName(dir'[slot].name) = Uppercase(n)
            /\ FindGivenEntry(dir', Uppercase(n)) = slot]_vars

\* ---- C9 ----
\* C9: after a command that ends with NotFound, InvalidOffset,
\* AlreadyExists, DirectoryFull, InvalidName or NoSpace every invariant of
\* the data model holds for every live file.
FailuresKeepWellFormed ==
  FailedWithoutIO(last) =>
    /\ \A i \in LiveSlots(dir) : ChainIntact(fat, dir[i]) /\ SizeAgrees(fat, dir[i])
    /\ \A i, j \in LiveSlots(dir) :
         i # j => ClusterSet(fat, dir[i]) \cap ClusterSet(fat, dir[j]) = {}

\* ---- C10 ----
\* C10: a write with OFFSET > size fails and changes no FAT entry, no
\* directory slot and no data cluster; a write with OFFSET = size is not
\* rejected for its offset and, when it succeeds, appends LENGTH bytes.
InvalidOffsetRejected ==
  \A n \in FoundNames : \A a \in WriteArgs :
    LET nm == SetFileName(n)
        index == FindGivenEntry(dir, nm)
        size == dir[index].size
        r == WriteBytesToFile(fat, dir, data, nm, a[1], a[2], a[3])
    IN /\ a[1] > size =>
            /\ r.res = MsgOffset
            /\ r.fat = fat /\ r.dir = dir /\ r.data = data /\ ~r.stray
       /\ a[1] = size =>
            /\ r.res # MsgOffset
            /\ r.res = MsgWritten =>
                 /\ r.dir[index].size = size + a[2]
                 /\ \A p \in size..(size + a[2] - 1) :
                      ReadFile(r.fat, r.dir, r.data, nm, FALSE).out[p + 1] = a[3]

\* a write was rejected for its offset while a file with content exists
InvalidOffsetWitness ==
  /\ last.op = "write" /\ last.res = MsgOffset
  /\ \E i \in LiveSlots(dir) : dir[i].size >= CLUSTERSIZE /\ Len(ChainOf(fat, dir[i])) >= 1

\* ---- more inputs of the claims ----
\* the slots holding a live file whose decoded name is nm
LiveMatches(d, nm) == {i \in DOMAIN d : IsLiveFile(d[i]) /\ DecodeName(d[i].name) = nm}

\* no slot has byte 0 equal to 0x00 or 0xE5
NoFreeSlot(d) == \A i \in DOMAIN d : d[i].name[1] # NUL /\ d[i].name[1] # DELETED

\* ---- C11 ----
\* C11: a create of N while a live entry matches N ends with AlreadyExists,
\* writes nothing to the image, and the directory then holds exactly one
\* entry for N.
AlreadyExistsOnce ==
  [][\A n \in InputNames :
       /\ last'.op = "create" /\ last'.name = n
       /\ LiveMatches(dir, Uppercase(n)) # {}
       => /\ last'.res = MsgExists
          /\ UNCHANGED <<fat, dir, data, damaged>>
          /\ Cardinality(LiveMatches(dir', Uppercase(n))) = 1]_vars

\* ---- C12 ----
\* C12: a create of a valid, absent name fails with DirectoryFull, leaving
\* the image as it was, when no slot has byte 0 equal to 0x00 or 0xE5, and
\* succeeds when there is such a slot; DirectoryFull is reported in no other
\* case.
DirectoryFullExactly ==
  [][\A n \in InputNames :
       /\ last'.op = "create" /\ last'.name = n
       => /\ last'.res = MsgFull => NoFreeSlot(dir)
          /\ Valid83(n) /\ LiveMatches(dir, Uppercase(n)) = {} =>
               IF NoFreeSlot(dir)
               THEN last'.res = MsgFull /\ UNCHANGED <<fat, dir, data, damaged>>
               ELSE last'.res = MsgCreated]_vars

NameArgs ==
  { <<"A", DOT, "B">>,
    <<"A", DOT, "B", DOT, "T">>,
    <<"A", "B", "C", "D", "E", "F", "G", "H", "T">>,
    <<"A", DOT, "B", "T", "X", "A">>,
    <<"A", "*", "B">> }

\* the commands of main run with these arguments
NameNext ==
  \/ Invoke /\ List
  \/ \E name \in NameArgs : Invoke /\ Create(name)
  \/ \E name \in NameArgs, off \in 0..MaxOff, len \in 0..MaxLen, byte \in Bytes :
       Invoke /\ Write(name, off, len, byte)
  \/ \E name \in NameArgs, is_binary \in BOOLEAN : Invoke /\ Read(name, is_binary)
  \/ \E name \in NameArgs : Invoke /\ Delete(name)

NameSpec == Init /\ [][NameNext]_vars

\* ---- C14 ----
\* C14: a command whose name argument is not an 8.3 name of letters,
\* digits, '_' and '-' (base over 8, extension over 3, more than one '.',
\* another character) ends with InvalidName and leaves the image as it was.
InvalidNameRejected ==
  [][\A n \in NameArgs :
       /\ last'.op \in {"create", "write", "read", "delete"} /\ last'.name = n
       /\ ~Valid83(n)
       => /\ last'.res = MsgName
          /\ UNCHANGED <<fat, dir, data, damaged>>]_vars

\* ---- C15 ----
\* the slots whose byte 0 is 0x00 or 0xE5
FreeSlots(d) == {i \in DOMAIN d : d[i].name[1] = NUL \/ d[i].name[1] = DELETED}

Layout83(str) ==
  LET u == Uppercase(str)
      dot == FirstDot(u, 1)
      base == IF dot = 0 THEN u ELSE SubSeq(u, 1, dot - 1)
      ext == IF dot = 0 THEN <<>> ELSE SubSeq(u, dot + 1, Len(u))
  IN [i \in 1..TOTAL_FILENAME_SIZE |->
        IF i <= FILENAME_SIZE
        THEN (IF i <= Len(base) THEN base[i] ELSE SPACE)
        ELSE (IF i - FILENAME_SIZE <= Len(ext) THEN ext[i - FILENAME_SIZE] ELSE SPACE)]

\* C16: the 11 name bytes a successful create of a valid 8.3 name stores
\* are the uppercased base and extension, split on the first '.', each
\* left-justified and padded with spaces; the '.' is not stored.
ShortNameLayout ==
  [][\A n \in InputNames :
       last' = Outcome("create", n, MsgCreated) /\ Valid83(n) =>
         \E i \in FreeSlots(dir) :
           /\ \A j \in FreeSlots(dir) : i <= j
           /\ dir'[i].name = Layout83(n)]_vars

\* ---- C17 ----
\* the lines of a binary dump: a line runs from an offset to the next new
\* line; an empty line is not counted; a byte before any offset, or an
\* offset inside a line, shows as -1
RECURSIVE DumpLines(_, _, _)
DumpLines(tokens, k, open) ==
  IF k > Len(tokens) THEN open
  ELSE LET t == tokens[k]
       IN IF t[1] = "nl" THEN open \o DumpLines(tokens, k + 1, <<>>)
          ELSE IF t[1] = "offset"
               THEN IF open = <<>>
                    THEN DumpLines(tokens, k + 1, << [offset |-> t[2], bytes |-> <<>>] >>)
                    ELSE DumpLines(tokens, k + 1,
                                   << [open[1] EXCEPT !.bytes = Append(@, 0 - 1)] >>)
          ELSE IF open = <<>>
               THEN DumpLines(tokens, k + 1, << [offset |-> 0 - 1, bytes |-> <<t[2]>>] >>)
               ELSE DumpLines(tokens, k + 1,
                              << [open[1] EXCEPT !.bytes = Append(@, t[2])] >>)

\* content in lines of LineBytes bytes, each with the file offset of its
\* first byte
ExpectedLines(content) ==
  [j \in 1..((Len(content) + LineBytes - 1) \div LineBytes) |->
     [offset |-> (j - 1) * LineBytes,
      bytes |-> SubSeq(content, (j - 1) * LineBytes + 1,
                       IF j * LineBytes < Len(content) THEN j * LineBytes
                       ELSE Len(content))]]

MaxDamagedCmds == 2

\* the name of the file whose chain is damaged
DamagedNames == { <<"A", DOT, "B">> }

\* FAT values that end a chain without being an end-of-chain mark: a free
\* entry, cluster 1, the bad-cluster value 0x0FFFFFF7 and the reserved value
\* 0x0FFFFFF0
BadPointers == {FAT_TABLE_FREE_CLUSTER_VALUE, 1, FAT_TABLE_BAD_CLUSTER_VALUE,
                FAT_TABLE_RESERVED_CLUSTER_VALUE}

\* a volume with one file A.B whose chain starts at cluster 3 and runs over
\* good clusters (3, or 3 and 4) into a bad pointer or back into itself, the
\* size asking for one cluster more than the good ones
DamagedInit ==
  \E good \in 1..2 :
  \E bad \in BadPointers \cup (3..(2 + good)) :
  \E size \in {good * CLUSTERSIZE + 1, (good + 1) * CLUSTERSIZE} :
    /\ fat = [c \in 0..FatLast |->
                IF c = 0 THEN FAT_TABLE_END_OF_FILE_VALUE
                ELSE IF c = 1 THEN FAT_TABLE_LAST_CLUSTER_VALUE
                ELSE IF c = root_directory_cluster_number THEN FAT_TABLE_END_OF_FILE_VALUE
                ELSE IF c = 2 + good THEN bad
                ELSE IF c = 3 THEN 4
                ELSE FAT_TABLE_FREE_CLUSTER_VALUE]
    /\ dir = [i \in 0..(root_directory_max_content_size - 1) |->
                IF i = 0
                THEN [NewFileEntry(<<"A", DOT, "B">>) EXCEPT !.start = 3, !.size = size]
                ELSE ZeroEntry]
    /\ data = [c \in DataClusters |-> [k \in 1..CLUSTERSIZE |-> 0]]
    /\ damaged = FALSE
    /\ last = Outcome("none", <<>>, "")
    /\ out = <<>>
    /\ ncmd = 0
    /\ fd = "closed"
    /\ boot = DefaultBoot
    /\ geometry \in {Geometry(DefaultBoot, q.value) : q \in Quotients(DefaultBoot)}
    /\ status = 0
    /\ loop = NoLoop

InvokeDamaged == ncmd < MaxDamagedCmds /\ ncmd' = ncmd + 1 /\ UNCHANGED <<boot, geometry, loop>>

DamagedNext ==
  \/ \E name \in DamagedNames, off \in 0..MaxOff, len \in 0..MaxLen, byte \in Bytes :
       InvokeDamaged /\ Write(name, off, len, byte)
  \/ \E name \in DamagedNames, is_binary \in BOOLEAN : InvokeDamaged /\ Read(name, is_binary)
  \/ \E name \in DamagedNames : InvokeDamaged /\ Delete(name)

DamagedSpec == DamagedInit /\ [][DamagedNext]_vars

\* ---- C18 ----
\* C18: when the chain of a file runs into a pointer below 2 or above
\* usable_clusters + 1 (a free entry, a bad-cluster or reserved value) or
\* into a cycle, a delete of the file, and a read whose size needs more
\* clusters than the chain has before the bad pointer, end with an error,
\* and no read, write or delete of the file writes outside the FAT entries
\* and data clusters of [2, usable_clusters + 1].
BadChainFailFast ==
  [][\A n \in DamagedNames :
       LET index == FindGivenEntry(dir, SetFileName(n))
           e == dir[index]
           ch == ChainOf(fat, e)
       IN /\ last'.op \in {"read", "write", "delete"} /\ last'.name = n
          /\ index # FAILURE
          /\ ~ChainIntact(fat, e)
          => /\ damaged' = damaged
             /\ last'.op = "delete" => last'.res # MsgDeleted
             /\ (last'.op = "read" /\ Len(ch) < ClustersFor(e.size)) =>
                  last'.res # MsgRead]_vars

\* ---- C19 ----
\* C19: in a round of create, write at offset 0, read and delete, the write
\* to a newly created (empty) file does not fail with NoSpace while the
\* volume has as many free clusters in [2, usable_clusters + 1] as the
\* write needs, and a successful delete leaves free every slot and every
\* FAT entry that was free before, together with the file's own slot and clusters.
CycleRepeatable ==
  [][\A n \in InputNames :
       LET index == FindGivenEntry(dir, SetFileName(n))
           e == dir[index]
       IN /\ last'.name = n
          /\ CheckFileName(n)
          /\ index # FAILURE
          => /\ ( /\ last'.op = "write"
                  /\ e.size = 0 /\ FirstCluster(e) = 0
                  /\ Cardinality(FreeEntries(fat) \cap (2..FatLast)) >= ClustersFor(MaxLen) )
                => last'.res # MsgNoSpace
             /\ last' = Outcome("delete", n, MsgDeleted) =>
                  /\ FreeSlots(dir') = FreeSlots(dir) \cup {index}
                  /\ FreeEntries(fat') = FreeEntries(fat) \cup ClusterSet(fat, e)]_vars

\* ---- C20 ----
\* C20: whenever a command that opened the image has returned from main,
\* on success or on any failure, the descriptor has been closed.
HandleReleased == fd = "closed"

\* ---- main from the start of the process ----
\* number of processes run on one image
MaxMainCmds == 1

\* boot sectors with default and non-default values of every field main reads
BootSectors ==
  [sector_size : {SECTORSIZE, 1024}, sec_per_clus : {0, ASSUMED_SEC_PER_CLUS, 4},
   reserved : {N_RESERVED_SECTORS, 16}, fats : {N_FAT_TABLES, 2},
   root_cluster : {ASSUMED_ROOT_DIRECTORY_CLUSTER, 3}, fat_length : {0},
   fat32_length : {1, 2}, total_sect : {64, 1024}]

MsgArguments == "Invalid arguments. Please enter -h for help"
MsgOpen == "Could not open disk image!"
MsgBoot == "Could not read boot sector!"

\* the formatted volume of Init with any of the boot sectors; no process has run
MainInit ==
  /\ fat = [c \in 0..FatLast |->
              IF c = 0 THEN FAT_TABLE_END_OF_FILE_VALUE
              ELSE IF c = 1 THEN FAT_TABLE_LAST_CLUSTER_VALUE
              ELSE IF c = root_directory_cluster_number THEN FAT_TABLE_END_OF_FILE_VALUE
              ELSE FAT_TABLE_FREE_CLUSTER_VALUE]
  /\ dir = [i \in 0..(root_directory_max_content_size - 1) |-> ZeroEntry]
  /\ data = [c \in DataClusters |-> [k \in 1..CLUSTERSIZE |-> 0]]
  /\ damaged = FALSE
  /\ last = Outcome("none", <<>>, "")
  /\ out = <<>>
  /\ ncmd = 0
  /\ fd = "closed"
  /\ boot \in BootSectors
  /\ geometry = NoGeometry
  /\ status = 0
  /\ loop = NoLoop

\* one more process on the image
Process == ncmd < MaxMainCmds /\ ncmd' = ncmd + 1 /\ UNCHANGED <<boot, loop>>

\* main up to the dispatch on argv[2]: the image is opened, the boot sector
\* read and the geometry derived without a fault
Startup ==
  /\ Process
  /\ \E q \in Quotients(boot) : ~q.fault /\ geometry' = Geometry(boot, q.value)

\* argc == 2 (-h or anything else) and argc < 3: main returns before the open
Usage(help) ==
  /\ Process
  /\ last' = Outcome("usage", <<>>, IF help THEN "Usage: fatmod <diskname> <options>"
                                    ELSE MsgArguments)
  /\ out' = <<>>
  /\ status' = 0
  /\ UNCHANGED <<fat, dir, data, damaged, fd, geometry>>

\* open() fails: exit(1)
OpenFails ==
  /\ Process
  /\ last' = Outcome("open", <<>>, MsgOpen)
  /\ out' = <<>>
  /\ status' = 1
  /\ UNCHANGED <<fat, dir, data, damaged, fd, geometry>>

\* read_sector of sector 0 fails: close(fd), exit(1)
BootSectorUnreadable ==
  /\ Process
  /\ last' = Outcome("boot", <<>>, MsgBoot)
  /\ out' = <<>>
  /\ fd' = "closed"
  /\ status' = 1
  /\ UNCHANGED <<fat, dir, data, damaged, geometry>>

\* the division by sectors_per_cluster = 0 stops the process (SIGFPE)
GeometryFault ==
  /\ Process
  /\ \E q \in Quotients(boot) : q.fault
  /\ last' = Outcome("startup", <<>>, "Floating point exception")
  /\ out' = <<>>
  /\ fd' = "open"
  /\ status' = 128 + 8
  /\ geometry' = [NoGeometry EXCEPT !.warnings = Warnings(boot)]
  /\ UNCHANGED <<fat, dir, data, damaged>>

\* fatmod DISK -r -b and fatmod DISK -r -a without NAME: argc is 4, the
\* check argc < 4 passes and strcpy reads argv[4], the null pointer that
\* ends argv. The behaviour is undefined: the process is stopped by a signal
\* (SIGSEGV), or the copy yields bytes that the name check then judges.
ReadWithoutName ==
  /\ Startup
  /\ \/ /\ last' = Outcome("read", <<>>, "Segmentation fault")
        /\ status' = 128 + 11
     \/ /\ last' = Outcome("read", <<>>, "File name is invalid!")
        /\ status' = 0
  /\ out' = <<>>
  /\ fd' = "open"
  /\ UNCHANGED <<fat, dir, data, damaged>>

MainNext ==
  \/ \E help \in BOOLEAN : Usage(help)
  \/ OpenFails
  \/ BootSectorUnreadable
  \/ GeometryFault
  \/ ReadWithoutName
  \/ Startup /\ List
  \/ \E name \in InputNames : Startup /\ Create(name)
  \/ \E name \in InputNames, off \in 0..MaxOff, len \in 0..MaxLen, byte \in Bytes :
       Startup /\ Write(name, off, len, byte)
  \/ \E name \in InputNames, is_binary \in BOOLEAN : Startup /\ Read(name, is_binary)
  \/ \E name \in InputNames : Startup /\ Delete(name)
  \/ \E option \in {"read", "create", "write", "delete", "unknown"} :
       Startup /\ InvalidArguments(option)

MainSpec == MainInit /\ [][MainNext]_vars

\* ---- C21 ----
\* C21: the exit status of a process is 1 exactly when the image could not
\* be opened or the boot sector could not be read, and 0 after every other
\* outcome.
ExitCodes ==
  /\ status = 1 <=> last.res \in {MsgOpen, MsgBoot}
  /\ status # 1 => status = 0

\* ---- C22 ----
\* C22: a command line that is none of the seven command forms (operands
\* missing, NAME missing after -r -b or -r -a, unknown option) prints the
\* invalid-arguments message, writes nothing to the image and exits 0.
InvalidArgumentsReported ==
  [][ /\ last'.op \in {"usage", "read", "create", "write", "delete", "unknown"}
      /\ last'.name = <<>>
      /\ last'.res # "Usage: fatmod <diskname> <options>"
      => /\ last'.res = MsgArguments
         /\ status' = 0
         /\ UNCHANGED <<fat, dir, data, damaged>>]_vars

\* ---- C24 ----
\* the fields of b that differ from the assumed geometry
NonDefault(b) ==
  (IF b.sector_size # 512 THEN {"sector_size"} ELSE {})
  \cup (IF b.sec_per_clus # 2 THEN {"sec_per_clus"} ELSE {})
  \cup (IF b.fats # 1 THEN {"fats"} ELSE {})
  \cup (IF b.root_cluster # 2 THEN {"root_cluster"} ELSE {})
  \cup (IF b.reserved # 32 THEN {"reserved"} ELSE {})

\* C24: a process that has read the boot sector, whatever its values, warns
\* about each non-default field, derives the geometry and goes on to the
\* command: it is not stopped while it derives the geometry.
GeometryWarningsNeverAbort ==
  (ncmd > 0 /\ last.op \notin {"usage", "open", "boot"}) =>
    /\ last.op # "startup"
    /\ geometry.derived
    /\ \A w \in NonDefault(boot) :
         \E k \in 1..Len(geometry.warnings) : geometry.warnings[k] = w

\* ---- C25 ----
\* the smallest of three numbers
Min3(x, y, z) ==
  IF x <= y /\ x <= z THEN x ELSE IF y <= z THEN y ELSE z

\* C25: the usable cluster count derived at startup is
\* min((total_sectors - reserved_sectors - num_fats * fat_length_sectors) / sectors_per_cluster,
\*     fat_length_sectors * sector_size / 4 - 2, 2^28).
UsableClusterCount ==
  (geometry.derived /\ boot.sec_per_clus # 0) =>
    geometry.usable_clusters_size =
      Min3(CDiv(boot.total_sect - boot.reserved - boot.fats * boot.fat32_length,
                boot.sec_per_clus),
           (boot.fat32_length * boot.sector_size) \div 4 - 2,
           268435456)

\* ---- the calls of a command on the image ----
\* the names that pass check_set_file_name
CheckedNames == {SetFileName(n) : n \in {m \in InputNames : CheckFileName(m)}}

\* every write_bytes_to_file that can run on the current image
WriteRuns ==
  {[name |-> nm, off |-> a[1], len |-> a[2],
    run |-> WriteBytesToFile(fat, dir, data, nm, a[1], a[2], a[3])] :
     nm \in CheckedNames, a \in WriteArgs}

\* the calls of every create, write and delete that can run on the current image
CommandLogs ==
  {CreateFileEntry(dir, nm).io : nm \in CheckedNames}
  \cup {DeleteFile(fat, dir, nm).io : nm \in CheckedNames}
  \cup {w.run.io : w \in WriteRuns}

\* the positions of the writes to a region in a call log
WritesTo(io, region) == {k \in 1..Len(io) : io[k].op = "write" /\ io[k].region = region}

\* ---- C23 ----
\* C23: in every command each write to the image (FAT entry, directory
\* entry, tombstone, data cluster) is followed at once by a flush, before the
\* next read or write.
DurableWriteOrdering ==
  \A io \in CommandLogs :
    \A k \in 1..Len(io) :
      io[k].op = "write" => k < Len(io) /\ io[k + 1] = FsyncEv

\* a write has succeeded, and a command on the image now makes writes to the
\* FAT, to the directory and to the data clusters
DurableWriteOrderingWitness ==
  /\ last.op = "write" /\ last.res = MsgWritten
  /\ \E io \in CommandLogs :
       /\ Cardinality(WritesTo(io, "fat")) >= 2
       /\ WritesTo(io, "dir") # {}
       /\ Cardinality(WritesTo(io, "data")) >= 2
  /\ \E nm \in CheckedNames : WritesTo(DeleteFile(fat, dir, nm).io, "fat") # {}

\* ---- C26 ----
\* the FAT after the first k calls of the log io on the FAT f
RECURSIVE ReplayFat(_, _, _)
ReplayFat(f, io, k) ==
  IF k <= 0 THEN f
  ELSE LET g == ReplayFat(f, io, k - 1)
       IN IF io[k].op = "write" /\ io[k].region = "fat" /\ io[k].at \in DOMAIN g
          THEN [g EXCEPT ![io[k].at] = io[k].value]
          ELSE g

\* a free entry lies on the chain that starts at cluster c
RECURSIVE ReachesFree(_, _, _)
ReachesFree(f, c, fuel) ==
  IF fuel <= 0 \/ c \notin DOMAIN f \/ c < 2 THEN FALSE
  ELSE IF f[c] = FAT_TABLE_FREE_CLUSTER_VALUE THEN TRUE
  ELSE ReachesFree(f, f[c], fuel - 1)

\* C26: in a write, a new cluster's FAT entry is set to end of chain before
\* any FAT entry is written to point at it; between two consecutive writes of
\* the command no free FAT entry is reachable from the file's chain.
AllocationOrder ==
  \A w \in WriteRuns :
    LET io == w.run.io
        index == FindGivenEntry(dir, w.name)
    IN index # FAILURE =>
         /\ \A k \in WritesTo(io, "fat") :
              io[k].value \in DataClusters =>
                \E j \in 1..(k - 1) :
                  io[j] = Ev("write", "fat", io[k].value, FAT_TABLE_END_OF_FILE_VALUE)
         /\ \A k \in 0..Len(io) :
              ~ReachesFree(ReplayFat(fat, io, k), FirstCluster(dir[index]), FatLast)

\* ---- C27 ----
\* C27: in a successful write all FAT writes come before the write of the
\* directory entry, the directory entry is written once and before the first
\* data cluster, and each data cluster is written back before the next one
\* is read.
PhaseOrder ==
  \A w \in WriteRuns :
    LET io == w.run.io
        reads == {k \in 1..Len(io) : io[k].op = "read" /\ io[k].region = "data"}
    IN w.run.res = MsgWritten =>
         /\ Cardinality(WritesTo(io, "dir")) = 1
         /\ \A i \in WritesTo(io, "fat"), j \in WritesTo(io, "dir") : i < j
         /\ \A i \in WritesTo(io, "dir"), j \in WritesTo(io, "data") : i < j
         /\ WritesTo(io, "data") # {}
         /\ \A i, j \in reads :
              i < j => \E k \in WritesTo(io, "data") :
                         i < k /\ k < j /\ io[k].at = io[i].at

\* a write has succeeded, and a write on the image now allocates two
\* clusters and fills more than one data cluster
PhaseOrderWitness ==
  /\ last.op = "write" /\ last.res = MsgWritten
  /\ \E w \in WriteRuns :
       /\ w.run.res = MsgWritten
       /\ Cardinality(WritesTo(w.run.io, "fat")) >= 3
       /\ Cardinality(WritesTo(w.run.io, "data")) >= 2

\* ---- C28 ----
\* the clusters root_first_cluster + 1 .. usable_clusters that are free in f
FreeInRange(f) ==
  {c \in (root_directory_cluster_number + 1)..usable_clusters_size :
     f[c] = FAT_TABLE_FREE_CLUSTER_VALUE}

\* C28: every cluster a write allocates is the lowest free cluster of
\* root_first_cluster + 1 .. usable_clusters at that moment, and a write
\* reports no free cluster only when no cluster of that range is free.
FreeClusterSearch ==
  \A w \in WriteRuns :
    LET io == w.run.io
    IN /\ \A k \in WritesTo(io, "fat") :
            io[k].value = FAT_TABLE_END_OF_FILE_VALUE =>
              LET before == FreeInRange(ReplayFat(fat, io, k - 1))
              IN io[k].at \in before /\ \A c \in before : io[k].at <= c
       /\ w.run.res = MsgNoSpace => FreeInRange(w.run.fat) = {}

DeleteFrame ==
  [][\A n \in InputNames :
       last' = Outcome("delete", n, MsgDeleted) =>
         LET nm == SetFileName(n)
             index == FindGivenEntry(dir, nm)
             io == DeleteFile(fat, dir, nm).io
         IN /\ dir' = [dir EXCEPT ![index].name[1] = DELETED]
            /\ \A c \in DOMAIN fat :
                 fat'[c] # fat[c] =>
                   c \in ClusterSet(fat, dir[index]) /\ fat'[c] = FAT_TABLE_FREE_CLUSTER_VALUE
            /\ \A k \in WritesTo(io, "fat") :
                 io[k].at \in ClusterSet(fat, dir[index]) /\ io[k].value = FAT_TABLE_FREE_CLUSTER_VALUE
            /\ FirstCluster(dir[index]) = 0 =>
                 WritesTo(io, "fat") = {} /\ fat' = fat
            /\ WritesTo(io, "data") = {}
            /\ data' = data
            /\ damaged' = damaged]_vars

\* a delete has left a tombstone that keeps the size and the first cluster
\* of a file of more than one cluster, whose chain is free again
DeleteFrameWitness ==
  /\ last.op = "delete" /\ last.res = MsgDeleted
  /\ \E i \in DOMAIN dir :
       /\ dir[i].name[1] = DELETED
       /\ dir[i].size > CLUSTERSIZE
       /\ FirstCluster(dir[i]) \in DataClusters
       /\ fat[FirstCluster(dir[i])] = FAT_TABLE_FREE_CLUSTER_VALUE

\* ---- C32 ----
\* the positions of the calls of read_cluster and write_cluster in a call log
DataCalls(io) == {k \in 1..Len(io) : io[k].region = "data"}

\* C32: every cluster number a successful write passes to read_cluster or
\* write_cluster is a cluster of the target file's chain.
DataIOOnChain ==
  \A w \in WriteRuns :
    LET index == FindGivenEntry(dir, w.name)
    IN w.run.res = MsgWritten =>
         \A k \in DataCalls(w.run.io) :
           w.run.io[k].at \in ClusterSet(w.run.fat, w.run.dir[index])

\* ---- C34 ----
\* the live files whose chain holds cluster c
OwnersOf(f, d, c) == {i \in LiveSlots(d) : c \in ClusterSet(f, d[i])}

\* C34: every FAT entry of a data cluster that is not free belongs to the
\* chain of exactly one live file.
NoLeakedClusters ==
  \A c \in DataClusters :
    fat[c] # FAT_TABLE_FREE_CLUSTER_VALUE => Cardinality(OwnersOf(fat, dir, c)) = 1

\* ---- C35 ----
\* C35: no two live directory entries carry the same 11 short-name bytes.
UniqueNames ==
  \A i, j \in LiveSlots(dir) : i # j => dir[i].name # dir[j].name

\* ---- C36 ----
\* the byte positions (cluster, index in the cluster) of the bytes
\* [from, to) of the file with chain ch
BytePositions(ch, from, to) ==
  {<<ch[(p \div CLUSTERSIZE) + 1], (p % CLUSTERSIZE) + 1>> :
     p \in {q \in from..(to - 1) : (q \div CLUSTERSIZE) + 1 <= Len(ch)}}

\* C36: a successful write with OFFSET + LENGTH <= size changes no FAT
\* entry, leaves every directory entry as it was (size and first cluster of
\* the target included) and changes only bytes [OFFSET, OFFSET + LENGTH) of
\* the file in the data region.
OverwriteInPlace ==
  \A w \in WriteRuns :
    LET index == FindGivenEntry(dir, w.name)
    IN (w.run.res = MsgWritten /\ w.off + w.len <= dir[index].size) =>
         /\ w.run.fat = fat
         /\ w.run.dir = dir
         /\ ~w.run.stray
         /\ \A c \in DataClusters, k \in 1..CLUSTERSIZE :
              w.run.data[c][k] # data[c][k] =>
                <<c, k>> \in BytePositions(ChainOf(fat, dir[index]), w.off, w.off + w.len)

\* a write has succeeded, and a write on the image now changes bytes inside
\* a file of more than one cluster without growing it
OverwriteInPlaceWitness ==
  /\ last.op = "write" /\ last.res = MsgWritten
  /\ \E w \in WriteRuns :
       LET index == FindGivenEntry(dir, w.name)
       IN /\ w.run.res = MsgWritten
          /\ dir[index].size > CLUSTERSIZE
          /\ w.len >= 2
          /\ w.off + w.len < dir[index].size
          /\ w.run.data # data

\* ---- C37 ----
\* the live file in slot b is the same on the image (f2, d2, dat2) as on the
\* current one: directory entry, chain, FAT entries of the chain, content
Untouched(b, f2, d2, dat2) ==
  /\ d2[b] = dir[b]
  /\ ChainOf(f2, d2[b]) = ChainOf(fat, dir[b])
  /\ \A c \in ClusterSet(fat, dir[b]) : f2[c] = fat[c]
  /\ FileContent(f2, dat2, d2[b]) = FileContent(fat, data, dir[b])

\* C37: a create, write or delete that targets the file A, successful or
\* not, leaves the directory entry, the chain and the content of every other
\* live file B as they were.
Isolation ==
  \A nm \in CheckedNames :
    \A b \in LiveSlots(dir) \ {FindGivenEntry(dir, nm)} :
      /\ LET r == CreateFileEntry(dir, nm) IN Untouched(b, fat, r.dir, data)
      /\ LET r == DeleteFile(fat, dir, nm) IN Untouched(b, r.fat, r.dir, data)
      /\ \A w \in WriteRuns :
           w.name = nm => Untouched(b, w.run.fat, w.run.dir, w.run.data)

\* a write has succeeded and two live files have a chain each: a delete or
\* a write now targets one of them while the other holds clusters
IsolationWitness ==
  /\ last.op = "write" /\ last.res = MsgWritten
  /\ \E i, j \in LiveSlots(dir) :
       /\ i # j
       /\ dir[i].name # dir[j].name
       /\ ClusterSet(fat, dir[i]) # {}
       /\ ClusterSet(fat, dir[j]) # {}
       /\ \E nm \in CheckedNames : FindGivenEntry(dir, nm) = i

\* ---- C31 ----
\* CLUSTERSIZE in bytes (ASSUMED_SEC_PER_CLUS is CLUSTERSIZE / SECTORSIZE):
\* the unit of the cluster counts, of the walk and of cluster_buffer
AssumedClusterBytes == ASSUMED_SEC_PER_CLUS * SECTORSIZE

\* read_cluster and write_cluster: the bytes one call transfers
TransferBytes(b) == SECTORSIZE * b.sec_per_clus

\* size / CLUSTERSIZE + (size % CLUSTERSIZE != 0), in bytes
ClusterCount(n) ==
  (n \div AssumedClusterBytes) + (IF n % AssumedClusterBytes # 0 THEN 1 ELSE 0)

\* start_offset / CLUSTERSIZE: the steps of the walk along the chain
WalkSteps(start_offset) == start_offset \div AssumedClusterBytes

\* start_offset % CLUSTERSIZE: the offset in the cluster
ClusterOffset(start_offset) == start_offset % AssumedClusterBytes

\* the file offsets and sizes tried, around the cluster boundaries
FileOffsets == {0, 1, 1023, 1024, 1025, 2047, 2048, 4095, 4096}

\* C31: for every geometry accepted at startup the cluster counts, the step
\* count floor(OFFSET / cluster_size) and the offset in the cluster are
\* computed with cluster_size = sectors_per_cluster * sector_size, the number
\* of bytes read_cluster and write_cluster transfer, so byte k of a file is
\* in the floor(k / cluster_size)-th cluster of its chain.
ClusterSizeDerived ==
  (geometry.derived /\ boot.sec_per_clus # 0) =>
    LET cluster_size == boot.sec_per_clus * boot.sector_size
    IN /\ TransferBytes(boot) = cluster_size
       /\ \A k \in FileOffsets :
            /\ WalkSteps(k) = k \div cluster_size
            /\ ClusterOffset(k) = k % cluster_size
            /\ ClusterCount(k) = (k + cluster_size - 1) \div cluster_size

\* ---- the loops of the commands, one pass per step ----
\* the width of int and unsigned int, scaled like the cluster: the loop
\* counter i of read_file is an int that advances by CLUSTERSIZE and is
\* compared with the unsigned size of the entry
WordBits == 4
Word == 2 ^ WordBits
IntMax == (Word \div 2) - 1

\* the conversion of an int to unsigned int
Unsigned(i) == (i + Word) % Word

\* the sizes tried: empty, inside a cluster, on a boundary, above INT_MAX -
\* CLUSTERSIZE, the largest unsigned value
StepSizes == {0, 1, 2 * CLUSTERSIZE, IntMax, Word - 1}

\* the FAT entries tried for cluster 3: itself, cluster 4, end of chain,
\* free, bad cluster, a number behind the table
StepPointers ==
  {3, 4, FAT_TABLE_END_OF_FILE_VALUE, FAT_TABLE_FREE_CLUSTER_VALUE,
   FAT_TABLE_BAD_CLUSTER_VALUE, FatLast + 1}

\* a volume with one file A.B of any of the sizes whose first cluster is 0
\* or 3; cluster 3 points anywhere, cluster 4 points back, to itself, on to
\* cluster 5 or ends the chain
StepInit ==
  \E first \in {0, 3} :
  \E size \in StepSizes :
  \E p3 \in StepPointers :
  \E p4 \in {3, 4, 5, FAT_TABLE_END_OF_FILE_VALUE} :
    /\ fat = [c \in 0..FatLast |->
                IF c = 0 THEN FAT_TABLE_END_OF_FILE_VALUE
                ELSE IF c = 1 THEN FAT_TABLE_LAST_CLUSTER_VALUE
                ELSE IF c = root_directory_cluster_number THEN FAT_TABLE_END_OF_FILE_VALUE
                ELSE IF c = 3 THEN p3
                ELSE IF c = 4 THEN p4
                ELSE IF c = 5 THEN FAT_TABLE_END_OF_FILE_VALUE
                ELSE FAT_TABLE_FREE_CLUSTER_VALUE]
    /\ dir = [i \in 0..(root_directory_max_content_size - 1) |->
                IF i = 0
                THEN [NewFileEntry(<<"A", DOT, "B">>) EXCEPT !.start = first, !.size = size]
                ELSE ZeroEntry]
    /\ data = [c \in DataClusters |-> [k \in 1..CLUSTERSIZE |-> 0]]
    /\ damaged = FALSE
    /\ last = Outcome("none", <<>>, "")
    /\ out = <<>>
    /\ ncmd = 0
    /\ fd = "open"
    /\ boot = DefaultBoot
    /\ geometry \in {Geometry(DefaultBoot, q.value) : q \in Quotients(DefaultBoot)}
    /\ status = 0
    /\ loop = NoLoop

\* the FAT with the transfer buffer as the command has left it
LoopDev == [FatDev(fat) EXCEPT !.buf = loop.buf]

\* the entry the command has found: A.B in slot 0
LoopEntry == dir[0]

\* what a step of a loop leaves alone
LoopFrame == UNCHANGED <<dir, data, damaged, last, out, ncmd, fd, boot, geometry, status>>

\* the command returns
Return(op) == loop' = [loop EXCEPT !.pc = "done", !.op = op]

\* list and create: read_root_directory runs over the
\* root_directory_max_content_size slots once or twice and returns
DirectoryCommand(op) ==
  /\ loop.pc = "idle"
  /\ Return(op)
  /\ UNCHANGED fat
  /\ LoopFrame

\* read_file up to the loop: current_cluster, next_cluster, i = 0
StartRead ==
  /\ loop.pc = "idle"
  /\ loop' = [pc |-> "read", op |-> "read",
              current_cluster |-> FirstCluster(LoopEntry),
              next_cluster |-> FatValue(LoopDev, FirstCluster(LoopEntry)),
              i |-> 0,
              buf |-> FatValue(LoopDev, FirstCluster(LoopEntry))]
  /\ UNCHANGED fat
  /\ LoopFrame

\* i < file_directory_entry->size, compared as unsigned, and no break
ReadGoesOn ==
  /\ Unsigned(loop.i) < LoopEntry.size
  /\ loop.current_cluster < FAT_TABLE_END_OF_FILE_VALUE

\* one pass of the loop of read_file; i += CLUSTERSIZE
ReadPass ==
  /\ loop.pc = "read"
  /\ ReadGoesOn
  /\ loop.i + CLUSTERSIZE <= IntMax
  /\ loop' = [loop EXCEPT !.current_cluster = loop.next_cluster,
                          !.next_cluster = FatValue(LoopDev, loop.next_cluster),
                          !.buf = FatValue(LoopDev, loop.next_cluster),
                          !.i = loop.i + CLUSTERSIZE]
  /\ UNCHANGED fat
  /\ LoopFrame

\* a pass whose i += CLUSTERSIZE overflows the int: the behaviour is
\* undefined; the counter wraps to the negative numbers, or the process is
\* stopped
ReadPassOverflow ==
  /\ loop.pc = "read"
  /\ ReadGoesOn
  /\ loop.i + CLUSTERSIZE > IntMax
  /\ \/ loop' = [loop EXCEPT !.current_cluster = loop.next_cluster,
                             !.next_cluster = FatValue(LoopDev, loop.next_cluster),
                             !.buf = FatValue(LoopDev, loop.next_cluster),
                             !.i = loop.i + CLUSTERSIZE - Word]
     \/ Return("read")
  /\ UNCHANGED fat
  /\ LoopFrame

\* the loop of read_file ends: i has reached the size, or the break
ReadEnd ==
  /\ loop.pc = "read"
  /\ ~ReadGoesOn
  /\ Return("read")
  /\ UNCHANGED fat
  /\ LoopFrame

\* delete_file up to the loop
StartDelete ==
  /\ loop.pc = "idle"
  /\ loop' = [pc |-> "delete", op |-> "delete",
              current_cluster |-> FirstCluster(LoopEntry),
              next_cluster |-> FatValue(LoopDev, FirstCluster(LoopEntry)),
              i |-> 0,
              buf |-> FatValue(LoopDev, FirstCluster(LoopEntry))]
  /\ UNCHANGED fat
  /\ LoopFrame

\* current_cluster < FAT_TABLE_END_OF_FILE_VALUE && current_cluster > 1
DeleteGoesOn ==
  loop.current_cluster < FAT_TABLE_END_OF_FILE_VALUE /\ loop.current_cluster > 1

\* one pass of the loop of delete_file: the entry of current_cluster is freed
DeletePassFrees(fs, current_cluster) ==
  FatWrite(fs, current_cluster, FAT_TABLE_FREE_CLUSTER_VALUE)

\* one pass of the loop of delete_file
DeletePass ==
  /\ loop.pc = "delete"
  /\ DeleteGoesOn
  /\ \E fs2 \in {DeletePassFrees(LoopDev, loop.current_cluster)} :
       /\ fat' = fs2.fat
       /\ loop' = [loop EXCEPT !.current_cluster = loop.next_cluster,
                               !.next_cluster = FatValue(fs2, loop.next_cluster),
                               !.buf = FatValue(fs2, loop.next_cluster)]
  /\ LoopFrame

\* the loop of delete_file ends; the tombstone is written
DeleteEnd ==
  /\ loop.pc = "delete"
  /\ ~DeleteGoesOn
  /\ Return("delete")
  /\ UNCHANGED fat
  /\ LoopFrame

\* write_bytes_to_file of one more cluster at the end of the file, up to
\* the walk to the last cluster
StartWrite ==
  /\ loop.pc = "idle"
  /\ loop' = [pc |-> "walk", op |-> "write",
              current_cluster |-> FirstCluster(LoopEntry),
              next_cluster |-> 0, i |-> 0, buf |-> loop.buf]
  /\ UNCHANGED fat
  /\ LoopFrame

\* for (i = 0; i < file_cluster_size - 1; i++) current_cluster = next entry
WalkPass ==
  /\ loop.pc = "walk"
  /\ loop.i < ClustersFor(LoopEntry.size) - 1
  /\ loop' = [loop EXCEPT !.current_cluster = FatValue(LoopDev, loop.current_cluster),
                          !.buf = FatValue(LoopDev, loop.current_cluster),
                          !.i = loop.i + 1]
  /\ UNCHANGED fat
  /\ LoopFrame

\* the walk ends; the allocation of one cluster (a scan of the table) and
\* the counted loops of the data phase follow, and the command returns
WalkEnd ==
  /\ loop.pc = "walk"
  /\ ~(loop.i < ClustersFor(LoopEntry.size) - 1)
  /\ fat' = AllocateClusters(LoopDev, LoopEntry, loop.current_cluster, 1).fs.fat
  /\ Return("write")
  /\ LoopFrame

StepNext ==
  \/ \E op \in {"list", "create"} : DirectoryCommand(op)
  \/ StartRead
  \/ ReadPass
  \/ ReadPassOverflow
  \/ ReadEnd
  \/ StartDelete
  \/ DeletePass
  \/ DeleteEnd
  \/ StartWrite
  \/ WalkPass
  \/ WalkEnd

\* a command that can take a step takes it
StepSpec == StepInit /\ [][StepNext]_vars /\ WF_vars(StepNext)

\* ---- C33 ----
\* C33: list, create, write, read and delete each finish after finitely
\* many steps for every content of the FAT and directory, cyclic chains and
\* chains longer than the size included.
Termination == <>(loop.pc = "done")

\* delete and write finish on every one of these volumes
DeleteAndWriteTerminate == (loop.op \in {"delete", "write"}) ~> (loop.pc = "done")

====
